---- MODULE Spec2Model ----
(***************************************************************************)
(* A model of the proof-of-work core of pow.go: the Challenge (difficulty  *)
(* d, seed x), its wire codec (String, DecodeChallenge, decodeSolution),   *)
(* the forward transform Solve and the inverse transform Check.            *)
(*                                                                         *)
(* Arithmetic.  The program works modulo the Mersenne prime 2^1279 - 1     *)
(* with the exponent 2^1277.  TLC's integers are 32 bits wide, so the      *)
(* model keeps the shape of the two constants, mod = 2^p - 1 with p prime  *)
(* and 2^p - 1 prime, exp = 2^(p-2) = (mod + 1) / 4, and takes p from a    *)
(* short list of Mersenne exponents.  Every other operation (Exp, Xor,     *)
(* Sub, Cmp, Bytes, SetBytes, base64) is computed as the program computes  *)
(* it.                                                                     *)
(*                                                                         *)
(* Text.  A string is a sequence of one-character strings, so that         *)
(* splitting, base64 and the change of a single byte are computed and not  *)
(* assumed.                                                                *)
(***************************************************************************)
EXTENDS Integers, Sequences, FiniteSets, TLC

VARIABLES
    c,        \* the Challenge the engine works on: [d |-> difficulty, x |-> seed]
    spc,      \* position of the Solve call: "idle", "loop" or "done"
    sx,       \* Solve's working value x (pow.go:79)
    si,       \* Solve's loop counter i (pow.go:134)
    sn,       \* number of slow steps Solve has applied so far
    solution, \* the string Solve returned
    cpc,      \* position of the Check call: "idle", "loop" or "done"
    cin,      \* the proof string Check was called with
    ckind,    \* where cin came from: "solved", "value", "text", "odd", "tampered"
    cy0,      \* the value decodeSolution produced for cin
    cy,       \* Check's working value y (pow.go:157)
    ci,       \* Check's loop counter i (pow.go:168)
    cn,       \* number of fast steps Check has applied so far
    cres,     \* Check's result: [val, err]
    accepted, \* the last proof string Check returned true for
    prev,     \* the value and the outcome of the Check before the one of its negation
    cc,       \* codec: the Challenge that is encoded
    encoded,  \* codec: the string String returned for cc
    input,    \* codec: the string handed to the decoder
    op,       \* codec: the last operation
    res,      \* codec: the result of the last decode
    gen,      \* codec: the fields the decoder's input was put together from
    rnd,      \* GenerateChallenge: its argument d, what rand.Read gave, its outcome
    heap,     \* concurrent calls: the value of every gmp.Int, by name
    chal,     \* concurrent calls: the shared Challenges, [d, x |-> name of a gmp.Int]
    orig,     \* concurrent calls: the Challenges' difficulty and seed when built
    calls     \* concurrent calls: each call's function, arguments, position, result

vars == <<c, spc, sx, si, sn, solution, cpc, cin, ckind, cy0, cy, ci, cn, cres,
          accepted, prev, cc, encoded, input, op, res, gen, rnd, heap, chal, orig, calls>>

engineVars == <<c, spc, sx, si, sn, solution, cpc, cin, ckind, cy0, cy, ci, cn,
                cres, accepted, prev>>
codecVars == <<cc, encoded, input, op, res, gen, rnd>>
concVars == <<heap, chal, orig, calls>>

-----------------------------------------------------------------------------
(* Bounds of the model *)

\* which of the Mersenne exponents below stands in for 1279
ModIdx == 2
\* difficulties 0..MaxD are solved and checked step by step
MaxD == 5
\* seeds and proof values are taken within SeedSpan of 0 and of mod
SeedSpan == 6
\* longest difficulty field, in bytes, handed to DecodeChallenge
MaxDLen == 5
\* length, in bytes, of the buffer GenerateChallenge fills; stands in for 16
RandLen == 2
\* width, in bits, of the loop counters and of the difficulties that are
\* looped over; stands in for the 32 of uint32
CounterBits == 3

MersenneExps == <<5, 7, 13>>

-----------------------------------------------------------------------------
(* Process-wide constants: pow.go:14-27 *)

version == <<"s">>

Pow2(n) == 2 ^ n

\* the exponent p of the modulus
ModBits == MersenneExps[ModIdx]

one == 1
two == 2

\* mod.Lsh(one, p); mod.Sub(mod, one)
mod == Pow2(ModBits) - one

\* a slip: one subtracted from exp as it is from mod
expMinusOne == Pow2(ModBits - 2) - one

\* exp.Lsh(one, p - 2)
exp == Pow2(ModBits - 2)

-----------------------------------------------------------------------------
(* The arbitrary-precision integer operations the program calls *)

RECURSIVE ExpSq(_, _, _)
\* r^e mod m for a reduced base r, by square and multiply
ExpSq(r, e, m) ==
    IF e = 0 THEN 1 % m
    ELSE LET h == ExpSq(r, e \div 2, m)
             sq == (h * h) % m
         IN IF e % 2 = 0 THEN sq ELSE (sq * r) % m

\* x.Exp(b, e, m): b^e mod m; the base is reduced first, and a base that is
\* zero modulo m gives zero for every e > 0
Exp(b, e, m) ==
    LET r == b % m
    IN IF r = 0 /\ e > 0 THEN 0 ELSE ExpSq(r, e, m)

\* a slip: one added where it is to be Xor-ed
Xor1AsAdd(x) == x + 1

\* x.Xor(x, one) on a non-negative x: the lowest bit is flipped
Xor1(x) == IF x % 2 = 0 THEN x + 1 ELSE x - 1

RECURSIVE Bytes(_)
\* x.Bytes(): the minimal big-endian bytes of x; no byte for zero
Bytes(x) == IF x = 0 THEN <<>> ELSE Append(Bytes(x \div 256), x % 256)

RECURSIVE SetBytes(_)
\* SetBytes(b): the big-endian unsigned value of the bytes b
SetBytes(b) ==
    IF Len(b) = 0 THEN 0
    ELSE SetBytes(SubSeq(b, 1, Len(b) - 1)) * 256 + b[Len(b)]

\* binary.BigEndian.PutUint32(b, d)
PutUint32(d) ==
    << (d \div 16777216) % 256, (d \div 65536) % 256, (d \div 256) % 256, d % 256 >>

\* a slip: the four bytes read least significant byte first
Uint32LE(b) == ((b[4] * 256 + b[3]) * 256 + b[2]) * 256 + b[1]

\* binary.BigEndian.Uint32(b) of exactly four bytes
Uint32(b) == ((b[1] * 256 + b[2]) * 256 + b[3]) * 256 + b[4]

-----------------------------------------------------------------------------
(* base64.StdEncoding *)

B64 == << "A","B","C","D","E","F","G","H","I","J","K","L","M",
          "N","O","P","Q","R","S","T","U","V","W","X","Y","Z",
          "a","b","c","d","e","f","g","h","i","j","k","l","m",
          "n","o","p","q","r","s","t","u","v","w","x","y","z",
          "0","1","2","3","4","5","6","7","8","9","+","/" >>

B64Chars == { B64[i] : i \in 1..64 }

Pad == "="

\* the 6-bit value of an alphabet character
B64Val(ch) == (CHOOSE i \in 1..64 : B64[i] = ch) - 1

B64Ch(v) == B64[v + 1]

RECURSIVE EncodeToString(_)
\* base64.StdEncoding.EncodeToString(b): three bytes to four characters, "=" padding
EncodeToString(b) ==
    IF Len(b) = 0 THEN <<>>
    ELSE IF Len(b) = 1 THEN
        << B64Ch(b[1] \div 4), B64Ch((b[1] % 4) * 16), Pad, Pad >>
    ELSE IF Len(b) = 2 THEN
        << B64Ch(b[1] \div 4), B64Ch((b[1] % 4) * 16 + b[2] \div 16),
           B64Ch((b[2] % 16) * 4), Pad >>
    ELSE
        << B64Ch(b[1] \div 4), B64Ch((b[1] % 4) * 16 + b[2] \div 16),
           B64Ch((b[2] % 16) * 4 + b[3] \div 64), B64Ch(b[3] % 64) >>
        \o EncodeToString(SubSeq(b, 4, Len(b)))

\* the decoder skips "\r" and "\n" wherever they stand
IsNewline(ch) == ch = "\n" \/ ch = "\r"

RECURSIVE StripNewlines(_)
StripNewlines(s) ==
    IF Len(s) = 0 THEN <<>>
    ELSE IF IsNewline(s[1]) THEN StripNewlines(Tail(s))
    ELSE <<s[1]>> \o StripNewlines(Tail(s))

DecodeFail == [err |-> TRUE, bytes |-> <<>>]

RECURSIVE DecodeQuanta(_)
\* the quanta of four characters; the decoder is not strict: the bits of the
\* last character that reach past the last byte are dropped, not checked
DecodeQuanta(s) ==
    IF Len(s) = 0 THEN [err |-> FALSE, bytes |-> <<>>]
    ELSE IF Len(s) < 4 THEN DecodeFail
    ELSE IF s[1] \notin B64Chars \/ s[2] \notin B64Chars THEN DecodeFail
    ELSE LET v1 == B64Val(s[1])
             v2 == B64Val(s[2])
             b1 == v1 * 4 + v2 \div 16
         IN IF s[3] = Pad THEN
                IF s[4] = Pad /\ Len(s) = 4
                THEN [err |-> FALSE, bytes |-> <<b1>>]
                ELSE DecodeFail
            ELSE IF s[3] \notin B64Chars THEN DecodeFail
            ELSE LET v3 == B64Val(s[3])
                     b2 == (v2 % 16) * 16 + v3 \div 4
                 IN IF s[4] = Pad THEN
                        IF Len(s) = 4
                        THEN [err |-> FALSE, bytes |-> <<b1, b2>>]
                        ELSE DecodeFail
                    ELSE IF s[4] \notin B64Chars THEN DecodeFail
                    ELSE LET b3 == (v3 % 4) * 64 + B64Val(s[4])
                             rest == DecodeQuanta(SubSeq(s, 5, Len(s)))
                         IN IF rest.err THEN DecodeFail
                            ELSE [err |-> FALSE, bytes |-> <<b1, b2, b3>> \o rest.bytes]

\* base64.StdEncoding.DecodeString(s)
DecodeString(s) == DecodeQuanta(StripNewlines(s))

-----------------------------------------------------------------------------
(* strings.SplitN and fmt.Sprintf *)

Dot == "."

\* index of the first "." of s, 0 when there is none
FirstDot(s) ==
    IF \E i \in 1..Len(s) : s[i] = Dot
    THEN CHOOSE i \in 1..Len(s) : s[i] = Dot /\ \A j \in 1..(i - 1) : s[j] # Dot
    ELSE 0

RECURSIVE SplitAll(_, _)
\* a slip: strings.Split, which splits at every "." whatever n is
SplitAll(s, n) ==
    IF FirstDot(s) = 0 THEN <<s>>
    ELSE <<SubSeq(s, 1, FirstDot(s) - 1)>>
         \o SplitAll(SubSeq(s, FirstDot(s) + 1, Len(s)), n)

RECURSIVE SplitN(_, _)
\* strings.SplitN(s, ".", n) for n >= 1: at most n parts, the last one unsplit
SplitN(s, n) ==
    IF n = 1 \/ FirstDot(s) = 0 THEN <<s>>
    ELSE <<SubSeq(s, 1, FirstDot(s) - 1)>>
         \o SplitN(SubSeq(s, FirstDot(s) + 1, Len(s)), n - 1)

RECURSIVE Fields(_)
\* all the dot-separated fields of s
Fields(s) ==
    IF FirstDot(s) = 0 THEN <<s>>
    ELSE <<SubSeq(s, 1, FirstDot(s) - 1)>> \o Fields(SubSeq(s, FirstDot(s) + 1, Len(s)))

-----------------------------------------------------------------------------
(* Errors.  DecodeChallenge and decodeSolution return errors.New values for *)
(* a wrong shape and pass on the error of the base64 decoder.               *)

NoErr == "nil"
ErrVersion == "incorrect version"
ErrTooLong == "difficulty too long"
ErrBase64 == "illegal base64 data"

\* the errors the decoders make themselves, and the one base64 makes
IsFormatError(e) == e \in {ErrVersion, ErrTooLong}
IsEncodingError(e) == e = ErrBase64

-----------------------------------------------------------------------------
(* The Challenge and its codec: pow.go:29-75, 143-153 *)

Challenge(d, x) == [d |-> d, x |-> x]

\* Go's nil, for the *Challenge and for the *gmp.Int a failed decode returns
NilChallenge == [d |-> -1, x |-> -1]
NilInt == -1

\* (c *Challenge) String()
String(ch) ==
    version \o <<Dot>> \o EncodeToString(PutUint32(ch.d))
            \o <<Dot>> \o EncodeToString(Bytes(ch.x))

\* a slip: the zero bytes appended, not prepended
PadEnd(b) == b \o [i \in 1..(4 - Len(b)) |-> 0]

\* pad start with 0s to 4 bytes: append(make([]byte, 4-len(dBytes)), dBytes...)
PadStart(b) == [i \in 1..(4 - Len(b)) |-> 0] \o b

\* DecodeChallenge(v): [err, c]; c is nil when err is set
DecodeChallenge(v) ==
    LET parts == SplitN(v, 3)
    IN IF Len(parts) # 3 \/ parts[1] # version
       THEN [err |-> ErrVersion, c |-> NilChallenge]
       ELSE LET dDec == DecodeString(parts[2])
            IN IF dDec.err THEN [err |-> ErrBase64, c |-> NilChallenge]
               ELSE IF Len(dDec.bytes) > 4 THEN [err |-> ErrTooLong, c |-> NilChallenge]
               ELSE LET dBytes == PadStart(dDec.bytes)
                        xDec == DecodeString(parts[3])
                    IN IF xDec.err THEN [err |-> ErrBase64, c |-> NilChallenge]
                       ELSE [err |-> NoErr,
                             c |-> Challenge(Uint32(dBytes), SetBytes(xDec.bytes))]

\* fmt.Sprintf("%s.%s", version, base64.StdEncoding.EncodeToString(x.Bytes()))
ProofString(x) == version \o <<Dot>> \o EncodeToString(Bytes(x))

\* decodeSolution(s): [err, y]
decodeSolution(s) ==
    LET parts == SplitN(s, 2)
    IN IF Len(parts) # 2 \/ parts[1] # version
       THEN [err |-> ErrVersion, y |-> NilInt]
       ELSE LET yDec == DecodeString(parts[2])
            IN IF yDec.err THEN [err |-> ErrBase64, y |-> NilInt]
               ELSE [err |-> NoErr, y |-> SetBytes(yDec.bytes)]

-----------------------------------------------------------------------------
(* The two steps: pow.go:135-136 and pow.go:169-170 *)

\* a slip: the slow step without the Xor
SlowStepNoXor(v) == Exp(v, exp, mod)

\* x.Exp(x, exp, mod); x.Xor(x, one)
SlowStep(v) == Xor1(Exp(v, exp, mod))

\* a slip: the fast step without the Xor
FastStepNoXor(y) == Exp(y, two, mod)

\* y.Xor(y, one); y.Exp(y, two, mod)
FastStep(y) == Exp(Xor1(y), two, mod)

RECURSIVE solveOriginal(_, _)
\* the loop of solveOriginal (optimizations_test.go:13-17) on x, d times
solveOriginal(x, d) == IF d = 0 THEN x ELSE SlowStep(solveOriginal(x, d - 1))

\* solveOriginal's return value
SolveOriginalString(ch) == ProofString(solveOriginal(ch.x, ch.d))

-----------------------------------------------------------------------------
(* Inputs of the transform engine *)

\* the largest difficulties TLC's integers hold
BigD == {2147483646, 2147483647}

\* seeds near 0 and near mod, below and above it
Seeds == (0..SeedSpan) \cup ((mod - SeedSpan)..(mod + SeedSpan))

\* Challenges built as the tests build them, &Challenge{d: d, x: x}; a large
\* difficulty only where Solve does not loop
Challenges ==
    { Challenge(d, x) : d \in 0..MaxD, x \in Seeds }
    \cup { Challenge(d, x) : d \in BigD, x \in {0, 1} }

\* proof values handed to Check
ProofValues == Seeds \cup {2 * mod, 2 * mod + 1}

\* proof strings that do not decode: no separator, a wrong first field, a
\* second field that is no base64
BadProofTexts ==
    { <<>>,
      <<"s">>,
      <<"s", "A", "Q", "=", "=">>,
      <<".", "A", "Q", "=", "=">>,
      <<"x", ".", "A", "Q", "=", "=">>,
      <<"s", "s", ".", "A", "Q", "=", "=">>,
      <<"s", ".", "A", "Q", "=">>,
      <<"s", ".", "A", "Q">>,
      <<"s", ".", "A", "=", "=", "=">>,
      <<"s", ".", "!", "Q", "=", "=">>,
      <<"s", ".", "A", "Q", "=", "=", "A">>,
      <<"s", ".", "A", "Q", "=", "=", ".", "A", "Q", "=", "=">> }

\* proof strings that decode and are no output of ProofString: a leading zero
\* byte, three zero bytes, a newline inside, set bits after the last byte
OddProofTexts ==
    { <<"s", ".", "A", "A", "E", "=">>,
      <<"s", ".", "A", "A", "A", "A">>,
      <<"s", ".", "A", "\n", "Q", "=", "=">>,
      <<"s", ".", "A", "Q", "=", "=", "\n">>,
      <<"s", ".", "A", "R", "=", "=">> }

\* the bytes a byte of a string can be changed into: the base64 alphabet, the
\* padding, the separator, a newline and a byte outside all of these
ByteChars == B64Chars \cup {Pad, Dot, "\n", "!"}

\* s with its i-th byte changed into ch
WithByte(s, i, ch) == [s EXCEPT ![i] = ch]

NoResult == [val |-> FALSE, err |-> NoErr]

NoPrev == [y |-> NilInt, cy |-> NilInt, res |-> NoResult]

NoDecode == [err |-> NoErr, c |-> NilChallenge, y |-> NilInt]

\* no gmp.Int but the package-level ones (pow.go:16-27)
NoHeap == [n \in {"mod", "exp", "one", "two"} |->
              CASE n = "mod" -> mod [] n = "exp" -> exp [] n = "one" -> one [] n = "two" -> two]

NoRand == [d |-> NilInt, b |-> <<>>, err |-> FALSE]

NoGen == [n |-> 0, ver |-> <<>>, dok |-> FALSE, dbytes |-> <<>>, xok |-> FALSE, xval |-> 0]

-----------------------------------------------------------------------------
(* The loop counters: uint32 i, scaled to CounterBits bits *)

\* the largest value of the counter's type
MaxUint == Pow2(CounterBits) - 1

\* i++ on an unsigned integer of that width
Inc(i) == (i + 1) % Pow2(CounterBits)

\* a slip: the loop test with <= for <
LoopTestInclusive(i, d) == i <= d

\* the loop test i < c.d (pow.go:134, 168)
LoopTest(i, d) == i < d

-----------------------------------------------------------------------------
(* Solve: pow.go:78-141 *)

Init ==
    /\ c \in Challenges
    /\ spc = "idle" /\ sx = 0 /\ si = 0 /\ sn = 0 /\ solution = <<>>
    /\ cpc = "idle" /\ cin = <<>> /\ ckind = "none" /\ cy0 = 0 /\ cy = 0 /\ ci = 0 /\ cn = 0
    /\ cres = NoResult /\ accepted = <<>> /\ prev = NoPrev
    /\ cc = NilChallenge /\ encoded = <<>> /\ input = <<>> /\ op = "none"
    /\ res = NoDecode /\ gen = NoGen /\ rnd = NoRand
    /\ heap = NoHeap /\ chal = <<>> /\ orig = <<>> /\ calls = <<>>

checkVars == <<cpc, cin, ckind, cy0, cy, ci, cn, cres, accepted, prev>>
solveVars == <<spc, sx, si, sn, solution>>

\* the fast path for x = 0 (pow.go:82-91): 0 -> 1 -> 0 -> ...
ZeroPath(d) == IF d % 2 = 0 THEN ProofString(0) ELSE ProofString(one)

\* a slip: the fast path for x = 1 with the parities of the path for x = 0
OnePathSwapped(d) == IF d % 2 = 0 THEN ProofString(0) ELSE ProofString(one)

\* the fast path for x = 1 (pow.go:93-102): 1 -> 0 -> 1 -> ...
OnePath(d) == IF d % 2 = 0 THEN ProofString(one) ELSE ProofString(0)

\* a slip: case 4 unrolled one step short
UnrolledShort(x, d) ==
    CASE d = 1 -> SlowStep(x)
      [] d = 2 -> SlowStep(SlowStep(x))
      [] d = 3 -> SlowStep(SlowStep(SlowStep(x)))
      [] d = 4 -> SlowStep(SlowStep(SlowStep(x)))
      [] OTHER -> x

\* a slip: a default case that runs one step, so that d = 0 is not the identity
UnrolledDefaultStep(x, d) ==
    CASE d = 1 -> SlowStep(x)
      [] d = 2 -> SlowStep(SlowStep(x))
      [] d = 3 -> SlowStep(SlowStep(SlowStep(x)))
      [] d = 4 -> SlowStep(SlowStep(SlowStep(SlowStep(x))))
      [] OTHER -> SlowStep(x)

\* the switch for d <= 4 (pow.go:105-131); it has no case for d = 0
Unrolled(x, d) ==
    CASE d = 1 -> SlowStep(x)
      [] d = 2 -> SlowStep(SlowStep(x))
      [] d = 3 -> SlowStep(SlowStep(SlowStep(x)))
      [] d = 4 -> SlowStep(SlowStep(SlowStep(SlowStep(x))))
      [] OTHER -> x

\* Solve up to the loop: the copy of c.x, the two fast paths, the unrolled switch
SolveCall ==
    /\ spc = "idle"
    /\ IF c.x = 0 THEN
           /\ solution' = ZeroPath(c.d)
           /\ spc' = "done"
           /\ sx' = c.x /\ UNCHANGED <<si, sn>>
       ELSE IF c.x = one THEN
           /\ solution' = OnePath(c.d)
           /\ spc' = "done"
           /\ sx' = c.x /\ UNCHANGED <<si, sn>>
       ELSE IF c.d <= 4 THEN
           /\ sx' = Unrolled(c.x, c.d)
           /\ sn' = c.d
           /\ solution' = ProofString(sx')
           /\ spc' = "done"
           /\ UNCHANGED si
       ELSE
           /\ sx' = c.x /\ si' = 0
           /\ spc' = "loop"
           /\ UNCHANGED <<sn, solution>>
    /\ UNCHANGED <<c, checkVars, codecVars, concVars>>

\* one iteration of the general loop (pow.go:134-137)
SolveIter ==
    /\ spc = "loop" /\ LoopTest(si, c.d)
    /\ sx' = SlowStep(sx)
    /\ si' = Inc(si)
    /\ sn' = sn + 1
    /\ UNCHANGED <<c, spc, solution, checkVars, codecVars, concVars>>

\* the loop ends and Solve returns (pow.go:140)
SolveReturn ==
    /\ spc = "loop" /\ ~LoopTest(si, c.d)
    /\ solution' = ProofString(sx)
    /\ spc' = "done"
    /\ UNCHANGED <<c, sx, si, sn, checkVars, codecVars, concVars>>

-----------------------------------------------------------------------------
(* Check: pow.go:156-179 *)

\* a slip: the comparison against x alone, mod - x forgotten
CompareExact(x, y) == x = y

\* a slip: the comparison taken modulo mod
CompareModular(x, y) == (x % mod = y % mod) \/ ((mod - x) % mod = y % mod)

\* the final comparison (pow.go:173-178): x against y, then mod - x against y
Compare(x, y) == IF x = y THEN TRUE ELSE (mod - x) = y

\* a slip: a proof that does not decode reported as a wrong proof
DecodeErrorAsFalse(err) == [val |-> FALSE, err |-> NoErr]

\* return false, fmt.Errorf("decode solution: %w", err) (pow.go:158-160)
DecodeError(err) == [val |-> FALSE, err |-> err]

\* Check up to the loop: decodeSolution, the decode error, the d = 0 path
CheckBody(s, kind) ==
    /\ cin' = s /\ ckind' = kind
    /\ LET r == decodeSolution(s)
       IN IF r.err # NoErr THEN
              /\ cres' = DecodeError(r.err)
              /\ cpc' = "done"
              /\ UNCHANGED <<cy0, cy, ci, cn, accepted>>
          ELSE IF c.d = 0 THEN
              /\ cres' = [val |-> (r.y = c.x), err |-> NoErr]
              /\ cpc' = "done"
              /\ cy0' = r.y /\ cy' = r.y /\ ci' = 0 /\ cn' = 0
              /\ accepted' = IF r.y = c.x THEN s ELSE accepted
          ELSE
              /\ cy0' = r.y /\ cy' = r.y /\ ci' = 0 /\ cn' = 0
              /\ cpc' = "loop"
              /\ cres' = NoResult
              /\ UNCHANGED accepted
    /\ UNCHANGED <<c, solveVars, codecVars, concVars>>

\* a call of Check, once Solve has returned
CheckCall(s, kind) ==
    /\ cpc = "idle" /\ spc = "done" /\ c.d <= MaxUint
    /\ CheckBody(s, kind)
    /\ UNCHANGED prev

\* the caller hands Check the string Solve returned
CheckSolved == accepted = <<>> /\ CheckCall(solution, "solved")

\* the caller hands Check the encoding of some value
CheckValue == accepted = <<>> /\ \E y \in ProofValues : CheckCall(ProofString(y), "value")

\* the caller hands Check a text that does not decode
CheckText == accepted = <<>> /\ \E s \in BadProofTexts : CheckCall(s, "text")

\* the caller hands Check an unusual text that decodes
CheckOdd == accepted = <<>> /\ \E s \in OddProofTexts : CheckCall(s, "odd")

\* the caller hands Check an accepted proof string with one byte changed
CheckTampered ==
    /\ accepted # <<>>
    /\ \E i \in 1..Len(accepted) : \E ch \in ByteChars \ {accepted[i]} :
           CheckCall(WithByte(accepted, i, ch), "tampered")

\* Check has returned for a proof value y in 0..mod; the caller notes the
\* outcome and hands Check the encoding of mod - y
CheckNegated ==
    /\ cpc = "done" /\ ckind \in {"solved", "value"} /\ cres.err = NoErr
    /\ cy0 <= mod /\ prev = NoPrev
    /\ prev' = [y |-> cy0, cy |-> cy, res |-> cres]
    /\ CheckBody(ProofString(mod - cy0), "negated")

\* one iteration of the loop (pow.go:168-171)
CheckIter ==
    /\ cpc = "loop" /\ LoopTest(ci, c.d)
    /\ cy' = FastStep(cy)
    /\ ci' = Inc(ci)
    /\ cn' = cn + 1
    /\ UNCHANGED <<c, solveVars, cpc, cin, ckind, cy0, cres, accepted, prev, codecVars,
                   concVars>>

\* the loop ends and Check compares and returns (pow.go:173-178)
CheckReturn ==
    /\ cpc = "loop" /\ ~LoopTest(ci, c.d)
    /\ cres' = [val |-> Compare(c.x, cy), err |-> NoErr]
    /\ accepted' = IF Compare(c.x, cy) THEN cin ELSE accepted
    /\ cpc' = "done"
    /\ UNCHANGED <<c, solveVars, cin, ckind, cy0, cy, ci, cn, prev, codecVars, concVars>>

\* Check has accepted a proof that was not tampered with; the caller calls again
CheckAgain ==
    /\ cpc = "done" /\ cres.val /\ ckind # "tampered"
    /\ cpc' = "idle"
    /\ UNCHANGED <<c, solveVars, cin, ckind, cy0, cy, ci, cn, cres, accepted, prev,
                   codecVars, concVars>>

Next ==
    \/ SolveCall
    \/ SolveIter
    \/ SolveReturn
    \/ CheckSolved
    \/ CheckValue
    \/ CheckText
    \/ CheckOdd
    \/ CheckTampered
    \/ CheckIter
    \/ CheckReturn
    \/ CheckAgain

Spec == Init /\ [][Next]_vars

-----------------------------------------------------------------------------
(* The two loops at every difficulty the counter's type holds *)

\* seeds on the fast paths, next to them, and around mod
CountedSeeds == {0, 1, 2, 3, mod - 1, mod, mod + 2}

\* every difficulty of the counter's width with each of those seeds
CountedChallenges == { Challenge(d, x) : d \in 0..MaxUint, x \in CountedSeeds }

LoopInit ==
    /\ c \in CountedChallenges
    /\ spc = "idle" /\ sx = 0 /\ si = 0 /\ sn = 0 /\ solution = <<>>
    /\ cpc = "idle" /\ cin = <<>> /\ ckind = "none" /\ cy0 = 0 /\ cy = 0 /\ ci = 0 /\ cn = 0
    /\ cres = NoResult /\ accepted = <<>> /\ prev = NoPrev
    /\ cc = NilChallenge /\ encoded = <<>> /\ input = <<>> /\ op = "none"
    /\ res = NoDecode /\ gen = NoGen /\ rnd = NoRand
    /\ heap = NoHeap /\ chal = <<>> /\ orig = <<>> /\ calls = <<>>

LoopNext ==
    \/ SolveCall
    \/ SolveIter
    \/ SolveReturn
    \/ CheckSolved
    \/ CheckValue
    \/ CheckNegated
    \/ CheckIter
    \/ CheckReturn

LoopSpec == LoopInit /\ [][LoopNext]_vars

-----------------------------------------------------------------------------
(* The wire codec on its own: String, DecodeChallenge, decodeSolution *)

\* bytes the difficulty fields are made of
DBytes == {0, 1, 127}

RECURSIVE ByteSeqs(_)
\* the byte strings of length n over DBytes
ByteSeqs(n) ==
    IF n = 0 THEN {<<>>}
    ELSE { Append(b, v) : b \in ByteSeqs(n - 1), v \in DBytes }

\* difficulty byte strings of every length up to MaxDLen
DByteSeqs == UNION { ByteSeqs(n) : n \in 0..MaxDLen }

\* seeds of zero to three bytes
CodecSeeds == {0, 1, 2, 255, 256, 65535, 65536} \cup {mod - 1, mod, mod + 1}

\* difficulties of every byte length, up to the largest TLC's integers hold
CodecDifficulties == {0, 1, 5, 255, 256, 65536, 16777216, 2147483647}

\* texts that are no base64
BadB64 == { <<"!">>, <<"A">>, <<"A", "Q", "=">>, <<"A", "=", "=", "=">> }

\* first fields
Versions == { <<"s">>, <<"x">>, <<"S">>, <<>>, <<"s", "s">> }

\* difficulty fields: [text, ok, bytes]
DFields ==
    { [text |-> EncodeToString(b), ok |-> TRUE, bytes |-> b] : b \in DByteSeqs }
    \cup { [text |-> t, ok |-> FALSE, bytes |-> <<>>] : t \in BadB64 }

\* seed or proof value fields: [text, ok, val]
XFields ==
    { [text |-> EncodeToString(Bytes(x)), ok |-> TRUE, val |-> x] : x \in CodecSeeds }
    \cup { [text |-> <<"A", "A", "E", "=">>, ok |-> TRUE, val |-> 1] }
    \cup { [text |-> t, ok |-> FALSE, val |-> 0] : t \in BadB64 }

\* what follows the last field when there is one field too many
Extras == { <<>>, <<"A", "Q", "=", "=">> }

CodecInit ==
    /\ c = NilChallenge
    /\ spc = "idle" /\ sx = 0 /\ si = 0 /\ sn = 0 /\ solution = <<>>
    /\ cpc = "idle" /\ cin = <<>> /\ ckind = "none" /\ cy0 = 0 /\ cy = 0 /\ ci = 0 /\ cn = 0
    /\ cres = NoResult /\ accepted = <<>> /\ prev = NoPrev
    /\ cc = NilChallenge /\ encoded = <<>> /\ input = <<>> /\ op = "none"
    /\ res = NoDecode /\ gen = NoGen /\ rnd = NoRand
    /\ heap = NoHeap /\ chal = <<>> /\ orig = <<>> /\ calls = <<>>

\* a Challenge is built: &Challenge{d: d, x: x}
Construct ==
    /\ op = "none"
    /\ \E d \in CodecDifficulties, x \in CodecSeeds : cc' = Challenge(d, x)
    /\ op' = "Challenge"
    /\ UNCHANGED <<encoded, input, res, gen, rnd, engineVars, concVars>>

\* encoded := cc.String()
DoString ==
    /\ op = "Challenge"
    /\ encoded' = String(cc)
    /\ op' = "String"
    /\ UNCHANGED <<cc, input, res, gen, rnd, engineVars, concVars>>

\* DecodeChallenge(encoded)
DecodeEncoded ==
    /\ op = "String"
    /\ input' = encoded
    /\ res' = DecodeChallenge(encoded) @@ [y |-> NilInt]
    /\ op' = "DecodeEncoded"
    /\ UNCHANGED <<cc, encoded, gen, rnd, engineVars, concVars>>

\* DecodeChallenge(v) for a text put together from n fields
DecodeChallengeText(n, ver, df, xf, extra) ==
    /\ input' = CASE n = 1 -> ver
                  [] n = 2 -> ver \o <<Dot>> \o df.text
                  [] n = 3 -> ver \o <<Dot>> \o df.text \o <<Dot>> \o xf.text
                  [] n = 4 -> ver \o <<Dot>> \o df.text \o <<Dot>> \o xf.text
                                  \o <<Dot>> \o extra
    /\ gen' = [n |-> n, ver |-> ver, dok |-> df.ok, dbytes |-> df.bytes,
               xok |-> xf.ok, xval |-> xf.val]
    /\ res' = DecodeChallenge(input') @@ [y |-> NilInt]
    /\ op' = "DecodeChallenge"
    /\ UNCHANGED <<cc, encoded, rnd, engineVars, concVars>>

AnyDField == CHOOSE f \in DFields : TRUE
AnyXField == CHOOSE f \in XFields : TRUE

DecodeChallenge1 ==
    op = "none" /\ \E ver \in Versions : DecodeChallengeText(1, ver, AnyDField, AnyXField, <<>>)
DecodeChallenge2 ==
    op = "none" /\ \E ver \in Versions, df \in DFields : DecodeChallengeText(2, ver, df, AnyXField, <<>>)
DecodeChallenge3 ==
    op = "none" /\ \E ver \in Versions, df \in DFields, xf \in XFields :
        DecodeChallengeText(3, ver, df, xf, <<>>)
DecodeChallenge4 ==
    op = "none" /\ \E ver \in Versions, df \in DFields, xf \in XFields, extra \in Extras :
        DecodeChallengeText(4, ver, df, xf, extra)

\* decodeSolution(s) for a text put together from n fields
DecodeSolutionText(n, ver, xf, extra) ==
    /\ input' = CASE n = 1 -> ver
                  [] n = 2 -> ver \o <<Dot>> \o xf.text
                  [] n = 3 -> ver \o <<Dot>> \o xf.text \o <<Dot>> \o extra
    /\ gen' = [n |-> n, ver |-> ver, dok |-> FALSE, dbytes |-> <<>>,
               xok |-> xf.ok, xval |-> xf.val]
    /\ res' = decodeSolution(input') @@ [c |-> NilChallenge]
    /\ op' = "decodeSolution"
    /\ UNCHANGED <<cc, encoded, rnd, engineVars, concVars>>

DecodeSolution1 ==
    op = "none" /\ \E ver \in Versions : DecodeSolutionText(1, ver, AnyXField, <<>>)
DecodeSolution2 ==
    op = "none" /\ \E ver \in Versions, xf \in XFields : DecodeSolutionText(2, ver, xf, <<>>)
DecodeSolution3 ==
    op = "none" /\ \E ver \in Versions, xf \in XFields, extra \in Extras :
        DecodeSolutionText(3, ver, xf, extra)

-----------------------------------------------------------------------------
(* GenerateChallenge: pow.go:58-68 *)

\* the width of the modulus in bits (pow.go:24) and the length of the random
\* buffer in bytes (pow.go:59), as the program has them
RealModBits == 1279
GenBytes == 16

\* byte values the random source yields
RandBytes == {0, 1, 128, 255}

RECURSIVE RandSeqs(_)
\* the buffers of n bytes over RandBytes
RandSeqs(n) ==
    IF n = 0 THEN {<<>>}
    ELSE { Append(b, v) : b \in RandSeqs(n - 1), v \in RandBytes }

\* the outcome of a call: the Challenge returned, or the panic
Returned(ch) == [panic |-> FALSE, c |-> ch]
Panicked == [panic |-> TRUE, c |-> NilChallenge]

\* a slip: a failed read ignored, the Challenge built from whatever is in b
GenerateIgnoringErr(d, b, err) == Returned(Challenge(d, SetBytes(b)))

\* the body of GenerateChallenge after rand.Read: panic(err), or
\* &Challenge{x: SetBytes(b), d: d}
Generate(d, b, err) ==
    IF err THEN Panicked ELSE Returned(Challenge(d, SetBytes(b)))

\* GenerateChallenge(d): rand.Read fills the buffer, or fails having filled any
\* part of it
GenerateChallenge ==
    /\ op = "none"
    /\ \E d \in CodecDifficulties, b \in RandSeqs(RandLen), err \in BOOLEAN :
           /\ rnd' = [d |-> d, b |-> b, err |-> err]
           /\ cc' = Generate(d, b, err).c
           /\ op' = IF Generate(d, b, err).panic THEN "panic" ELSE "GenerateChallenge"
    /\ UNCHANGED <<encoded, input, res, gen, engineVars, concVars>>

CodecNext ==
    \/ GenerateChallenge
    \/ Construct
    \/ DoString
    \/ DecodeEncoded
    \/ DecodeChallenge1
    \/ DecodeChallenge2
    \/ DecodeChallenge3
    \/ DecodeChallenge4
    \/ DecodeSolution1
    \/ DecodeSolution2
    \/ DecodeSolution3

CodecSpec == CodecInit /\ [][CodecNext]_vars

-----------------------------------------------------------------------------
(* Concurrent calls of Solve, Check and String on shared Challenges.  Every  *)
(* gmp.Int is an object of the heap; a gmp operation z.Op(a, b) reads a and  *)
(* b and writes z, and is one step of the call that makes it.                *)

\* the calls that run side by side
Calls == {1, 2}

\* the gmp.Int each Challenge's x points to
SeedInt == <<"c1.x", "c2.x">>
\* the gmp.Int each call makes for itself: x (pow.go:79, 173) and y (pow.go:157)
LocalX == <<"x1", "x2">>
LocalY == <<"y1", "y2">>

RECURSIVE Xor(_, _)
\* z.Xor(a, b) for a, b >= 0
Xor(a, b) ==
    IF a = 0 THEN b
    ELSE IF b = 0 THEN a
    ELSE 2 * Xor(a \div 2, b \div 2) + ((a + b) % 2)

\* Challenges that take every path of Solve and Check: the fast paths, the
\* unrolled switch, a seed above mod, difficulty 0
ConcChallenges ==
    { Challenge(1, 0), Challenge(2, 1), Challenge(0, 2), Challenge(3, 4),
      Challenge(2, mod - 3), Challenge(1, mod + 1) }

\* the second Challenge: its difficulty takes the general loop
LoopChallenge == Challenge(MaxD, 5)

\* a slip: no copy, the call works on the gmp.Int it was to copy
WorkingIntAliased(own, src) == src

\* x := gmp.NewInt(0).Set(src): the gmp.Int the call works on is its own
WorkingInt(own, src) == own

\* the results of a call: a string (Solve, String) or a boolean and an error
NoOut == [str |-> <<>>, val |-> FALSE, err |-> NoErr]
StrOut(s) == [str |-> s, val |-> FALSE, err |-> NoErr]
BoolOut(r) == [str |-> <<>>, val |-> r.val, err |-> r.err]

NoCall == [fn |-> "none", ch |-> 1, s |-> <<>>, pc |-> "idle", path |-> "none",
           i |-> 0, n |-> 0, mid |-> FALSE, out |-> NoOut]

\* the proof strings handed to a concurrent Check of Challenge ch: the proof
\* of the literal loop, the proof of the seed itself, a text that does not decode
ConcProofs(ch) == { SolveOriginalString(ch), ProofString(ch.x), <<"s">> }

ConcInit ==
    /\ c = NilChallenge
    /\ spc = "idle" /\ sx = 0 /\ si = 0 /\ sn = 0 /\ solution = <<>>
    /\ cpc = "idle" /\ cin = <<>> /\ ckind = "none" /\ cy0 = 0 /\ cy = 0 /\ ci = 0 /\ cn = 0
    /\ cres = NoResult /\ accepted = <<>> /\ prev = NoPrev
    /\ cc = NilChallenge /\ encoded = <<>> /\ input = <<>> /\ op = "none"
    /\ res = NoDecode /\ gen = NoGen /\ rnd = NoRand
    /\ \E c1 \in ConcChallenges :
           /\ orig = <<c1, LoopChallenge>>
           /\ chal = <<[d |-> c1.d, x |-> SeedInt[1]],
                       [d |-> LoopChallenge.d, x |-> SeedInt[2]]>>
           /\ heap = NoHeap @@ [n \in {"c1.x", "c2.x", "x1", "x2", "y1", "y2"} |->
                         CASE n = "c1.x" -> c1.x
                           [] n = "c2.x" -> LoopChallenge.x
                           [] OTHER -> 0]
    /\ calls = [p \in Calls |-> NoCall]

\* another call is under way
Busy(p) == \E q \in Calls \ {p} : calls[q].pc \notin {"idle", "done"}

\* a goroutine calls chal[k].Solve(), chal[k].Check(s) or chal[k].String()
Begin(p, fn, k, s) ==
    /\ calls' = [calls EXCEPT ![p] = [NoCall EXCEPT !.fn = fn, !.ch = k, !.s = s,
                                                   !.pc = fn, !.mid = Busy(p)]]
    /\ UNCHANGED <<heap, chal, orig, engineVars, codecVars>>

BeginSolve == \E p \in Calls, k \in 1..2 :
    /\ calls[p].pc = "idle"
    /\ Begin(p, "Solve", k, <<>>)

BeginCheck == \E p \in Calls, k \in 1..2 :
    /\ calls[p].pc = "idle"
    /\ \E s \in ConcProofs(orig[k]) : Begin(p, "Check", k, s)

BeginString == \E p \in Calls, k \in 1..2 :
    /\ calls[p].pc = "idle"
    /\ Begin(p, "String", k, <<>>)

\* the call p is at pc; its Challenge and the gmp.Int it works on
At(p, pc) == calls[p].pc = pc
Ch(p) == chal[calls[p].ch]
X(p) == WorkingInt(LocalX[p], Ch(p).x)
Y(p) == LocalY[p]

\* the call p moves on; the heap is written at z
Goto(p, pc) == calls' = [calls EXCEPT ![p].pc = pc]
Return(p, out) == calls' = [calls EXCEPT ![p].pc = "done", ![p].out = out]
Write(z, v) == heap' = [heap EXCEPT ![z] = v]
ConcFrame == UNCHANGED <<chal, orig, engineVars, codecVars>>

\* x := gmp.NewInt(0).Set(c.x) (pow.go:79)
ConcSolveCopy == \E p \in Calls :
    /\ At(p, "Solve")
    /\ Write(X(p), heap[Ch(p).x])
    /\ Goto(p, "branch")
    /\ ConcFrame

\* the two fast paths (pow.go:82-102)
ConcSolveFast == \E p \in Calls :
    /\ At(p, "branch") /\ (heap[X(p)] = 0 \/ heap[X(p)] = heap["one"])
    /\ IF heap[X(p)] = 0
       THEN Return(p, StrOut(IF Ch(p).d % 2 = 0 THEN ProofString(0)
                                                ELSE ProofString(heap["one"])))
       ELSE Return(p, StrOut(IF Ch(p).d % 2 = 0 THEN ProofString(heap["one"])
                                                ELSE ProofString(0)))
    /\ UNCHANGED heap /\ ConcFrame

\* the switch on c.d, entered at the case for c.d, or the first test of the
\* loop (pow.go:105-134)
ConcSolveBranch == \E p \in Calls :
    /\ At(p, "branch") /\ heap[X(p)] # 0 /\ heap[X(p)] # heap["one"]
    /\ IF Ch(p).d <= 4
       THEN calls' = [calls EXCEPT ![p].path = "unrolled",
                                   ![p].n = Ch(p).d,
                                   ![p].pc = IF Ch(p).d \in 1..4 THEN "exp" ELSE "return"]
       ELSE calls' = [calls EXCEPT ![p].path = "loop",
                                   ![p].i = 0,
                                   ![p].pc = IF 0 < Ch(p).d THEN "exp" ELSE "return"]
    /\ UNCHANGED heap /\ ConcFrame

\* x.Exp(x, exp, mod)
ConcSolveExp == \E p \in Calls :
    /\ At(p, "exp")
    /\ Write(X(p), Exp(heap[X(p)], heap["exp"], heap["mod"]))
    /\ Goto(p, "xor")
    /\ ConcFrame

\* x.Xor(x, one), then the next pair of the case, or i++ and the test i < c.d
ConcSolveXor == \E p \in Calls :
    /\ At(p, "xor")
    /\ Write(X(p), Xor(heap[X(p)], heap["one"]))
    /\ IF calls[p].path = "unrolled"
       THEN calls' = [calls EXCEPT ![p].n = @ - 1,
                                   ![p].pc = IF calls[p].n - 1 > 0 THEN "exp" ELSE "return"]
       ELSE calls' = [calls EXCEPT ![p].i = @ + 1,
                                   ![p].pc = IF calls[p].i + 1 < Ch(p).d THEN "exp"
                                                                         ELSE "return"]
    /\ ConcFrame

\* return fmt.Sprintf("%s.%s", version, ...x.Bytes()) (pow.go:140)
ConcSolveReturn == \E p \in Calls :
    /\ At(p, "return")
    /\ Return(p, StrOut(ProofString(heap[X(p)])))
    /\ UNCHANGED heap /\ ConcFrame

\* y, err := decodeSolution(s), the decode error, the d = 0 path (pow.go:157-165)
ConcCheckDecode == \E p \in Calls :
    /\ At(p, "Check")
    /\ LET r == decodeSolution(calls[p].s)
       IN IF r.err # NoErr THEN
              /\ Return(p, BoolOut(DecodeError(r.err)))
              /\ UNCHANGED heap
          ELSE IF Ch(p).d = 0 THEN
              /\ Write(Y(p), r.y)
              /\ Return(p, BoolOut([val |-> (r.y = heap[Ch(p).x]), err |-> NoErr]))
          ELSE
              /\ Write(Y(p), r.y)
              /\ calls' = [calls EXCEPT ![p].i = 0, ![p].pc = "cxor"]
    /\ ConcFrame

\* y.Xor(y, one)
ConcCheckXor == \E p \in Calls :
    /\ At(p, "cxor")
    /\ Write(Y(p), Xor(heap[Y(p)], heap["one"]))
    /\ Goto(p, "cexp")
    /\ ConcFrame

\* y.Exp(y, two, mod), then i++ and the test i < c.d
ConcCheckExp == \E p \in Calls :
    /\ At(p, "cexp")
    /\ Write(Y(p), Exp(heap[Y(p)], heap["two"], heap["mod"]))
    /\ calls' = [calls EXCEPT ![p].i = @ + 1,
                              ![p].pc = IF calls[p].i + 1 < Ch(p).d THEN "cxor" ELSE "cmp"]
    /\ ConcFrame

\* x := gmp.NewInt(0).Set(c.x); if x.Cmp(y) == 0 { return true, nil } (pow.go:173-176)
ConcCheckCmp == \E p \in Calls :
    /\ At(p, "cmp")
    /\ Write(X(p), heap[Ch(p).x])
    /\ IF heap[Ch(p).x] = heap[Y(p)]
       THEN Return(p, BoolOut([val |-> TRUE, err |-> NoErr]))
       ELSE Goto(p, "sub")
    /\ ConcFrame

\* x.Sub(mod, c.x); return x.Cmp(y) == 0, nil (pow.go:177-178)
ConcCheckSub == \E p \in Calls :
    /\ At(p, "sub")
    /\ Write(X(p), heap["mod"] - heap[Ch(p).x])
    /\ Return(p, BoolOut([val |-> (heap["mod"] - heap[Ch(p).x] = heap[Y(p)]), err |-> NoErr]))
    /\ ConcFrame

\* String reads c.d and c.x (pow.go:71-75)
ConcString == \E p \in Calls :
    /\ At(p, "String")
    /\ Return(p, StrOut(String(Challenge(Ch(p).d, heap[Ch(p).x]))))
    /\ UNCHANGED heap /\ ConcFrame

ConcNext ==
    \/ BeginSolve
    \/ BeginCheck
    \/ BeginString
    \/ ConcSolveCopy
    \/ ConcSolveFast
    \/ ConcSolveBranch
    \/ ConcSolveExp
    \/ ConcSolveXor
    \/ ConcSolveReturn
    \/ ConcCheckDecode
    \/ ConcCheckXor
    \/ ConcCheckExp
    \/ ConcCheckCmp
    \/ ConcCheckSub
    \/ ConcString

ConcSpec == ConcInit /\ [][ConcNext]_vars

-----------------------------------------------------------------------------
(* Properties of the transform engine, checked under Spec *)

\* Solve has returned
Solved == spc = "done"

\* Check has returned
Checked == cpc = "done"

\* Check has returned a boolean for a proof that decoded
CheckedValue == Checked /\ cres.err = NoErr

\* what the string Solve returned decodes to
SolutionValue == decodeSolution(solution)

\* C1, as stated: for all difficulties d and all seeds x, Check of the proof
\* Solve returned for Challenge(d, x) returns true with no error.
SolveCheckAgreeAllSeeds ==
    (Checked /\ ckind = "solved") => (cres.val /\ cres.err = NoErr)

\* C1, amended: for all difficulties d and all seeds x with 0 <= x <= mod, Check
\* of the proof Solve returned for Challenge(d, x) returns true with no error.
SolveCheckAgree ==
    (Checked /\ ckind = "solved" /\ c.x <= mod) => (cres.val /\ cres.err = NoErr)

\* C1 witness: the general loop has solved a seed strictly between 1 and mod,
\* and Check has accepted the proof through the root mod - seed
SolveCheckAgreeWitness ==
    /\ Checked /\ ckind = "solved" /\ cres.val
    /\ c.d > 4 /\ c.x > 1 /\ c.x < mod /\ si = c.d /\ ci = c.d
    /\ cy = mod - c.x

-----------------------------------------------------------------------------
\* the value after the fast step, written out: flip the lowest bit, square, reduce
FastOnce(y) ==
    LET z == (IF y % 2 = 0 THEN y + 1 ELSE y - 1) % mod
    IN (z * z) % mod

RECURSIVE FastTimes(_, _)
\* the fast step applied n times to y
FastTimes(y, n) == IF n = 0 THEN y ELSE FastOnce(FastTimes(y, n - 1))

\* C3, as stated: a proof string made from a proof string Check accepted by
\* changing one byte is never accepted: Check returns false or a decode error.
TamperRejected ==
    (Checked /\ ckind = "tampered") => ~cres.val

\* C4: for a proof that decodes to y, Check returns true exactly when d = 0 and
\* y = seed, or d >= 1 and the fast step applied d times to y gives seed or
\* mod - seed; in every other case it returns false.
CheckAcceptsExactly ==
    CheckedValue =>
        (cres.val <=>
            \/ c.d = 0 /\ cy0 = c.x
            \/ c.d >= 1 /\ FastTimes(cy0, c.d) \in {c.x, mod - c.x})

\* C4 witness: Check has looped more than once on a proof that is not the one
\* Solve returned and has accepted it through mod - seed
CheckAcceptsExactlyWitness ==
    /\ CheckedValue /\ cres.val /\ ckind = "value"
    /\ c.d >= 2 /\ ci = c.d /\ c.x > 1 /\ cy = mod - c.x /\ cin # solution

\* C5: at difficulty 0 Solve returns a proof that decodes to exactly the seed,
\* whatever the seed (0, 1, mod or more), and Check returns false for a proof
\* that decodes to any other value.
IdentityAtZero ==
    /\ (Solved /\ c.d = 0) => SolutionValue = [err |-> NoErr, y |-> c.x]
    /\ (CheckedValue /\ c.d = 0 /\ cy0 # c.x) => ~cres.val

\* C5 witness: a seed above mod at difficulty 0, solved to itself, and a proof
\* of seed - 1 rejected
IdentityAtZeroWitness ==
    /\ Solved /\ c.d = 0 /\ c.x > mod /\ SolutionValue.y = c.x
    /\ CheckedValue /\ cy0 = c.x - 1 /\ ~cres.val

\* C6: for seed 0 the proof decodes to 0 when d is even and to 1 when d is odd;
\* for seed 1 it decodes to 1 when d is even and to 0 when d is odd.
DegeneratePeriodicity ==
    (Solved /\ c.x \in {0, 1}) =>
        /\ SolutionValue.err = NoErr
        /\ SolutionValue.y = (IF c.d % 2 = 0 THEN c.x ELSE 1 - c.x)

\* C6 witness: seed 0 at the largest odd difficulty, solved to 1
DegeneratePeriodicityWitness ==
    /\ Solved /\ c.x = 0 /\ c.d = 2147483647
    /\ solution = <<"s", ".", "A", "Q", "=", "=">>

\* C7: the string Solve returns is the string solveOriginal returns.
SolveIsSolveOriginal ==
    (Solved /\ c.d <= MaxD) => solution = SolveOriginalString(c)

\* C7 witness: the fast path for seed 1 at an odd difficulty above the unrolled
\* ones, with the result of the literal loop
SolveIsSolveOriginalWitness ==
    /\ Solved /\ c.x = 1 /\ c.d = 5 /\ sn = 0
    /\ solution = SolveOriginalString(c) /\ solution = <<"s", ".">>

\* C10: Check returns an error exactly when the proof string does not decode,
\* never together with true; for a proof string that decodes it returns a
\* boolean and no error.
CheckErrorIffMalformed ==
    Checked =>
        /\ (cres.err # NoErr) <=> (decodeSolution(cin).err # NoErr)
        /\ ckind = "text" => cres.err # NoErr
        /\ ckind \in {"solved", "value", "odd"} => cres.err = NoErr
        /\ cres.err # NoErr => ~cres.val

\* C10 witness: a proof that decodes and is wrong got false and no error
CheckErrorIffMalformedWitness ==
    /\ Checked /\ ckind = "odd" /\ c.d >= 1 /\ cres = [val |-> FALSE, err |-> NoErr]

-----------------------------------------------------------------------------
\* Xor with one maps mod - w to mod - (w Xor one), for every w in 0..mod
XorNegates == \A w \in 0..mod : Xor1(mod - w) = mod - Xor1(w)

\* one fast step applied to the slow step of v gives v or mod - v, for every
\* v in 0..mod-1
FastUndoesSlow == \A v \in 0..(mod - 1) : FastStep(SlowStep(v)) \in {v, mod - v}

\* the value after j slow steps of the loop on the seed
V(j) == solveOriginal(c.x, j)

\* C14: for a seed with 0 <= seed < mod, when Check starts from the value
\* Solve returned, then after k iterations of its loop, 0 <= k <= d, its y is
\* congruent modulo mod to the value after d - k slow steps or to mod minus
\* that value; one fast step applied to the slow step of v gives v or mod - v,
\* and Xor with one maps mod - w to mod - (w Xor one).
CheckUndoesSolve ==
    /\ (cpc \in {"loop", "done"} /\ ckind = "solved" /\ c.x < mod) =>
           /\ cn <= c.d
           /\ cy % mod \in {V(c.d - cn) % mod, (mod - V(c.d - cn)) % mod}
    /\ FastUndoesSlow
    /\ XorNegates

\* C14 witness: two iterations into Check's loop at the largest difficulty, y
\* is mod minus the value three slow steps from the seed, and not that value
CheckUndoesSolveWitness ==
    /\ cpc = "loop" /\ ckind = "solved" /\ c.x > 1 /\ c.x < mod
    /\ c.d = MaxD /\ cn = 2
    /\ cy = mod - V(c.d - 2) /\ cy # V(c.d - 2)

-----------------------------------------------------------------------------
\* C16: for d >= 1 and a Challenge whose seed is greater than mod, a Challenge
\* that DecodeChallenge returns for its String encoding, Check returns false
\* for every proof that decodes, the one Solve returned included: the value
\* its loop ends on lies in 0..mod-1 and is neither the seed nor mod - seed,
\* which is negative.
SeedAboveModRejected ==
    (CheckedValue /\ c.d >= 1 /\ c.x > mod) =>
        /\ DecodeChallenge(String(c)) = [err |-> NoErr, c |-> c]
        /\ ~cres.val
        /\ cy \in 0..(mod - 1)
        /\ cy # c.x /\ cy # mod - c.x /\ mod - c.x < 0

\* C16 witness: Check has rejected the proof Solve's loop returned for a seed
\* above mod, having ended on a value congruent to the seed modulo mod
SeedAboveModRejectedWitness ==
    /\ CheckedValue /\ ckind = "solved" /\ c.d > 4 /\ c.x > mod + 1
    /\ cn = c.d /\ ~cres.val
    /\ cy % mod \in {c.x % mod, (mod - (c.x % mod)) % mod}

-----------------------------------------------------------------------------
\* for every v in 0..2*mod+1 the modular exponentiation of the slow step is
\* not mod - 1, and the slow step of v lies in 0..mod-1
SlowStepBelowMod ==
    \A v \in 0..(2 * mod + 1) :
        /\ Exp(v, exp, mod) # mod - 1
        /\ SlowStep(v) \in 0..(mod - 1)

\* C17: in Solve, for any seed and d >= 1, the working value after every
\* slow step lies in 0..mod-1, the Xor with one never giving mod; and the
\* proof Solve returns for d >= 1 decodes to a value strictly below mod.
SolveBelowMod ==
    /\ sn >= 1 => sx \in 0..(mod - 1)
    /\ (Solved /\ c.d >= 1) =>
           /\ SolutionValue.err = NoErr
           /\ SolutionValue.y \in 0..(mod - 1)
    /\ SlowStepBelowMod

\* C17 witness: Solve's loop has taken a seed above mod to a value below mod
\* in its first step, has kept it there, and has returned it
SolveBelowModWitness ==
    /\ Solved /\ c.x > mod + 1 /\ c.d > 4 /\ sn = c.d
    /\ SlowStep(c.x) < mod /\ sx > 1 /\ sx < mod /\ SolutionValue.y = sx

-----------------------------------------------------------------------------
(* Properties of the wire codec, checked under CodecSpec *)

\* the number of dot-separated fields of the decoder's input
FieldCount == Len(Fields(input))

\* the first dot-separated field of the decoder's input
FirstField == Fields(input)[1]

\* nothing but the error came back
NothingDecoded == res.c = NilChallenge /\ res.y = NilInt

RECURSIVE BigEndianValue(_)
\* the unsigned integer a byte string writes, most significant byte first
BigEndianValue(b) ==
    IF Len(b) = 0 THEN 0
    ELSE b[1] * (256 ^ (Len(b) - 1)) + BigEndianValue(Tail(b))

\* C2: DecodeChallenge of the String encoding of Challenge(d, x) succeeds and
\* yields the same difficulty and the same seed, seed 0 included.
RoundTrip ==
    op = "DecodeEncoded" => (res.err = NoErr /\ res.c = cc)

\* C2 witness: the largest difficulty with seed 0, whose seed field is empty,
\* encoded and decoded
RoundTripWitness ==
    /\ op = "DecodeEncoded" /\ cc = Challenge(2147483647, 0)
    /\ input = encoded /\ encoded[Len(encoded)] = Dot /\ res.c = cc

\* C8, as stated: a Challenge string with other than 3 fields, a Proof string
\* with other than 2 fields, or either with a first field other than "s", fails
\* with a format error and yields nothing.
ShapeIsFormatError ==
    /\ (op = "DecodeChallenge" /\ (FieldCount # 3 \/ FirstField # version))
           => (IsFormatError(res.err) /\ NothingDecoded)
    /\ (op = "decodeSolution" /\ (FieldCount # 2 \/ FirstField # version))
           => (IsFormatError(res.err) /\ NothingDecoded)

\* C8, amended: a Challenge string with fewer than 3 fields, a Proof string
\* with fewer than 2 fields, or either with a first field other than "s", fails
\* with the format error "incorrect version" and yields nothing.  A string
\* whose first field is "s" and that has more fields than that fails too and
\* yields nothing, but the extra fields stay in the last part and the error is
\* the one of the base64 decoder (for a Challenge string, that or the format
\* error "difficulty too long").
ShapeError ==
    /\ (op = "DecodeChallenge" /\ (FieldCount < 3 \/ FirstField # version))
           => (res.err = ErrVersion /\ NothingDecoded)
    /\ (op = "decodeSolution" /\ (FieldCount < 2 \/ FirstField # version))
           => (res.err = ErrVersion /\ NothingDecoded)
    /\ (op = "DecodeChallenge" /\ FieldCount > 3 /\ FirstField = version)
           => ((IsEncodingError(res.err) \/ res.err = ErrTooLong) /\ NothingDecoded)
    /\ (op = "decodeSolution" /\ FieldCount > 2 /\ FirstField = version)
           => (IsEncodingError(res.err) /\ NothingDecoded)

\* C8 witness: a Challenge string of four fields, the first three of them a
\* well-formed Challenge string, has failed with the base64 error
ShapeErrorWitness ==
    /\ op = "DecodeChallenge" /\ FieldCount = 4 /\ gen.n = 4 /\ FirstField = version
    /\ gen.dok /\ Len(gen.dbytes) = 4 /\ gen.xok
    /\ IsEncodingError(res.err) /\ NothingDecoded

\* C9: in a Challenge string of three fields with first field "s", a difficulty
\* field of more than 4 bytes fails with a format error; one of n <= 4 bytes
\* (0 bytes included) gives, when the seed field decodes, the difficulty that
\* those n bytes write as a big-endian unsigned integer.
DifficultyField ==
    (op = "DecodeChallenge" /\ gen.n = 3 /\ gen.ver = version /\ gen.dok) =>
        /\ Len(gen.dbytes) > 4 => (res.err = ErrTooLong /\ IsFormatError(res.err)
                                      /\ NothingDecoded)
        /\ (Len(gen.dbytes) <= 4 /\ gen.xok) =>
               (res.err = NoErr /\ res.c.d = BigEndianValue(gen.dbytes))

\* C9 witness: a difficulty field of two bytes, decoded to their value
DifficultyFieldWitness ==
    /\ op = "DecodeChallenge" /\ gen.n = 3 /\ gen.ver = version
    /\ gen.dbytes = <<127, 1>> /\ gen.xok /\ res.err = NoErr /\ res.c.d = 32513

-----------------------------------------------------------------------------
\* C11: GenerateChallenge(d) returns, for every d, a Challenge whose difficulty
\* is d and whose seed is the big-endian value of the random bytes, so that
\* 0 <= seed < 2^(8 * length), and 2^(8 * 16) < 2^1279 - 1 = M with the lengths
\* the program has; when the random source fails the call panics and no
\* Challenge comes back, and it fails in no other way.
GenerateContract ==
    /\ op = "GenerateChallenge" =>
           /\ ~rnd.err
           /\ cc.d = rnd.d
           /\ Len(rnd.b) = RandLen
           /\ cc.x = BigEndianValue(rnd.b)
           /\ 0 <= cc.x /\ cc.x < Pow2(8 * Len(rnd.b))
           /\ 8 * GenBytes < RealModBits
    /\ op = "panic" => (rnd.err /\ cc = NilChallenge)
    /\ rnd # NoRand => (op = "panic" <=> rnd.err)

\* C11 witness: the largest difficulty with a buffer of all ones bits, returned
\* as the largest seed of that length
GenerateContractWitness ==
    /\ op = "GenerateChallenge" /\ rnd.d = 2147483647 /\ cc.d = 2147483647
    /\ \A i \in 1..RandLen : rnd.b[i] = 255
    /\ cc.x = Pow2(8 * RandLen) - 1

-----------------------------------------------------------------------------
(* Properties of concurrent calls, checked under ConcSpec *)

\* what Solve returns for Challenge ch when it runs alone (pow.go:78-141)
SolveAlone(ch) ==
    IF ch.x = 0 THEN ZeroPath(ch.d)
    ELSE IF ch.x = one THEN OnePath(ch.d)
    ELSE IF ch.d <= 4 THEN ProofString(Unrolled(ch.x, ch.d))
    ELSE ProofString(solveOriginal(ch.x, ch.d))

RECURSIVE CheckLoop(_, _)
\* y after d iterations of Check's loop (pow.go:168-171)
CheckLoop(y, d) == IF d = 0 THEN y ELSE FastStep(CheckLoop(y, d - 1))

\* what Check returns for Challenge ch and proof s when it runs alone
\* (pow.go:156-179)
CheckAlone(ch, s) ==
    LET r == decodeSolution(s)
    IN IF r.err # NoErr THEN DecodeError(r.err)
       ELSE IF ch.d = 0 THEN [val |-> (r.y = ch.x), err |-> NoErr]
       ELSE [val |-> Compare(ch.x, CheckLoop(r.y, ch.d)), err |-> NoErr]

\* the result of the call fn(ch, s) run alone
Alone(fn, ch, s) ==
    CASE fn = "Solve" -> StrOut(SolveAlone(ch))
      [] fn = "Check" -> BoolOut(CheckAlone(ch, s))
      [] fn = "String" -> StrOut(String(ch))

\* a call has returned
HasReturned(p) == calls[p].pc = "done"

\* C12: at every step of every interleaving of two calls of Solve, Check or
\* String, on the same Challenge or on different ones, the constants mod, exp,
\* one and two and the difficulty and the seed of every Challenge are what
\* they were at the start, and every call that has returned has returned what
\* the same call returns when it runs alone.
FrameAndIsolation ==
    /\ heap["mod"] = mod /\ heap["exp"] = exp /\ heap["one"] = one /\ heap["two"] = two
    /\ \A k \in 1..2 :
           /\ chal[k].d = orig[k].d
           /\ chal[k].x = SeedInt[k]
           /\ heap[SeedInt[k]] = orig[k].x
    /\ \A p \in Calls :
           HasReturned(p) =>
               calls[p].out = Alone(calls[p].fn, orig[calls[p].ch], calls[p].s)

\* C12 witness: Solve has run the general loop on a Challenge while a Check of
\* the same Challenge, begun while Solve was under way, has looped and
\* accepted the proof through mod - seed
FrameAndIsolationWitness ==
    /\ calls[1].pc = "done" /\ calls[1].fn = "Solve" /\ calls[1].ch = 2
    /\ calls[1].path = "loop" /\ calls[1].i = chal[2].d
    /\ calls[2].pc = "done" /\ calls[2].fn = "Check" /\ calls[2].ch = 2
    /\ calls[2].mid /\ calls[2].i = chal[2].d /\ calls[2].out.val
    /\ heap["y2"] = mod - heap["c2.x"] /\ heap["x2"] = heap["y2"]

-----------------------------------------------------------------------------
(* Properties of the loops, checked under LoopSpec *)

\* C13: Solve and Check terminate at every difficulty the counter's type
\* holds: every step that stays in a loop adds exactly one to the loop's
\* counter and leaves it at most d, so that a loop ends after at most d steps
\* and its counter does not wrap around; when Solve has returned for a seed
\* other than 0 and 1 it has applied the slow step exactly d times, each to
\* the result of the one before, and for seed 0 or 1 not at all; when Check
\* has returned for a proof that decodes it has applied the fast step exactly
\* d times.
LoopsTerminate ==
    /\ [](Solved => IF c.x \in {0, one}
                     THEN sn = 0
                     ELSE sn = c.d /\ sx = solveOriginal(c.x, c.d))
    /\ [](CheckedValue => (cn = c.d /\ cy = FastTimes(cy0, c.d)))
    /\ [][(spc = "loop" /\ spc' = "loop") => (si' = si + 1 /\ si' <= c.d)]_vars
    /\ [][(cpc = "loop" /\ cpc' = "loop") => (ci' = ci + 1 /\ ci' <= c.d)]_vars

\* C13 witness: the largest difficulty of the counter's type, solved by the
\* loop and checked, each loop having run that many times
LoopsTerminateWitness ==
    /\ c.d = MaxUint /\ c.x \notin {0, one}
    /\ Solved /\ si = MaxUint /\ sn = MaxUint
    /\ CheckedValue /\ ci = MaxUint /\ cn = MaxUint /\ cres.val

-----------------------------------------------------------------------------
\* C15: for d >= 1 and any seed, Check of the proof value mod - y returns what
\* Check of the proof value y returned, for every y with 0 <= y <= mod, and
\* ends its loop on the same value; so the negation of a proof that was
\* accepted is accepted, and it is another proof.
NegatedProofSameResult ==
    (Checked /\ ckind = "negated" /\ c.d >= 1) =>
        /\ cy0 = mod - prev.y /\ cy0 # prev.y
        /\ cres = prev.res
        /\ cy = prev.cy

\* C15 witness: the proof Solve's loop returned was accepted, and so was its
\* negation, a different proof string, for a seed strictly between 1 and mod
NegatedProofSameResultWitness ==
    /\ Checked /\ ckind = "negated" /\ c.d > 4 /\ c.x > 1 /\ c.x < mod
    /\ prev.y = SolutionValue.y /\ prev.res.val /\ cres.val
    /\ cin # solution /\ cn = c.d

====
